---- MODULE Spec2Model ----
(***************************************************************************)
(* A model of gl_typed_enum_generator's StructGenerator                    *)
(* (src/src/struct_gen.rs): the generator that writes a binding module to  *)
(* an io::Write sink, and the behaviour of the text it writes (the         *)
(* generated load_with routine, FnPtr, the per-command methods and the     *)
(* Debug impl of each enum group).                                         *)
(*                                                                         *)
(* Every writeln! of the source is one line record appended to the sink;   *)
(* a line record keeps the format arguments of that writeln!.              *)
(***************************************************************************)
EXTENDS Integers, Sequences, FiniteSets, TLC

VARIABLES
    registry,   \* the &Registry handed to write (read only)
    dest,       \* the io::Write sink: text written, writes attempted, its fault
    pc,         \* the stage StructGenerator::write is about to run
    ret,        \* what write returned: <<>> (running), <<"Ok">>, <<"Err", e>>
    stages,     \* the stage emitters called so far, in call order
    run,        \* which call of write this is (1 or 2)
    prev,       \* the text the first call of write produced
    ptrs,       \* generated runtime: the FnPtrs table built so far by load_with
    queries,    \* generated runtime: per table entry, the loadfn calls made for it
    call        \* generated runtime: the last generated method invoked

vars == <<registry, dest, pc, ret, stages, run, prev, ptrs, queries, call>>

genVars == <<dest, pc, ret, stages, run, prev>>

loadVars == <<ptrs, queries, call>>

(***************************************************************************)
(* Bounds of the model.                                                    *)
(***************************************************************************)
MaxValue == 2

MaxMembers == 2

MaxParams == 2

MaxFallbacks == 2

MaxAddr == 2

MaxFailAt == 80

(***************************************************************************)
(* Generic helpers.                                                        *)
(***************************************************************************)
SeqsUpTo(S, n) ==
    UNION {[1..k -> S] : k \in 0..n}

RECURSIVE Concat(_)
Concat(ss) ==
    IF ss = <<>> THEN <<>> ELSE Head(ss) \o Concat(Tail(ss))

Range(s) ==
    {s[i] : i \in 1..Len(s)}

\* Option<T>: None is <<>>, Some(x) is <<x>>.
None == <<>>

Some(x) == <<x>>

(***************************************************************************)
(* The Registry (gl_generator::Registry as struct_gen.rs reads it).        *)
(* enums and cmds are BTreeSets and groups is a BTreeMap: each is modelled *)
(* by its iteration order.  aliases is a map from a command identifier to  *)
(* its fallback identifiers.                                               *)
(***************************************************************************)
EnumIdents == {"A", "B"}

Values == 1..MaxValue

Enum(ident, value) ==
    [ident |-> ident, value |-> value]

\* registry.enums in iteration order (sorted by identifier, identifiers unique).
EnumLists ==
    {<<>>}
    \cup {<<Enum("A", v)>> : v \in Values}
    \cup {<<Enum("B", v)>> : v \in Values}
    \cup {<<Enum("A", v), Enum("B", w)>> : v \in Values, w \in Values}

Group(ident, enums_type, enums) ==
    [ident |-> ident, enums_type |-> enums_type, enums |-> enums]

EnumsTypes == {None, Some("bitmask")}

GroupsNamed(ident, types, members) ==
    {Group(ident, t, m) : t \in types, m \in members}

\* registry.groups in iteration order (sorted by key; the key is the ident):
\* a group Boolean (never a bitmask) and a group G, each present or not.
GroupLists(types, members) ==
    {<<>>}
    \cup {<<g>> : g \in GroupsNamed("Boolean", {None}, members)}
    \cup {<<g>> : g \in GroupsNamed("G", types, members)}
    \cup {<<b, g>> : b \in GroupsNamed("Boolean", {None}, members),
                     g \in GroupsNamed("G", types, members)}

Binding(ident, ty, group) ==
    [ident |-> ident, ty |-> ty, group |-> group]

Cmd(ident, ty, params) ==
    [proto |-> Binding(ident, ty, None), params |-> params]

\* registry.groups.get(key)
groups_get(reg, key) ==
    IF \E i \in 1..Len(reg.groups) : reg.groups[i].ident = key
    THEN Some(CHOOSE g \in Range(reg.groups) : g.ident = key)
    ELSE None

\* registry.aliases.get(ident)
aliases_get(reg, ident) ==
    IF ident \in DOMAIN reg.aliases THEN Some(reg.aliases[ident]) ELSE None

\* generators::gen_symbol_name(registry.api, ident): the api's prefix and the
\* identifier.
gen_symbol_name(api, ident) ==
    <<api, ident>>

\* generators::gen_struct_name(registry.api)
gen_struct_name(api) ==
    IF api = "gl" THEN "Gl" ELSE api

(***************************************************************************)
(* The lines the emitters write.  Line records of one kind have the same   *)
(* fields; fixed text is a "text" line.                                    *)
(***************************************************************************)
T(text) ==
    [kind |-> "text", text |-> text]

\* write_header: one writeln!.
write_header_lines ==
    <<T("mod __gl_imports")>>

\* write_type_aliases: the module opening, generators::gen_types, the closing.
write_type_aliases_lines(reg) ==
    <<T("pub mod types {"), [kind |-> "gen_types", api |-> reg.api], T("}")>>

\* write_enums: generators::gen_enum_item per enum, in registry order.
write_enums_lines(reg) ==
    [i \in 1..Len(reg.enums) |->
        [kind |-> "gen_enum_item", ident |-> reg.enums[i].ident,
         value |-> reg.enums[i].value, types_prefix |-> "types::"]]

\* write_fnptr_struct_def: one writeln! (struct FnPtr, FnPtr::new, is_loaded).
write_fnptr_struct_def_lines ==
    <<T("pub struct FnPtr; impl FnPtr { fn new; pub fn is_loaded }")>>

\* write_panicking_fns: one writeln! (fn missing_fn_panic() -> !).
write_panicking_fns_lines(reg) ==
    <<[kind |-> "missing_fn_panic", api |-> reg.api]>>

\* write_struct, the body of its loop over registry.cmds.
struct_field_lines(reg, cmd) ==
    LET fbs == aliases_get(reg, cmd.proto.ident)
    IN (IF fbs # None
        THEN <<[kind |-> "fallbacks_doc", fallbacks |-> fbs[1]]>>
        ELSE <<>>)
       \o <<[kind |-> "field", name |-> cmd.proto.ident]>>

write_struct_lines(reg) ==
    <<[kind |-> "ptrs_struct_open", api |-> gen_struct_name(reg.api)]>>
    \o Concat([i \in 1..Len(reg.cmds) |-> struct_field_lines(reg, reg.cmds[i])])
    \o <<T("}"), T(""), [kind |-> "api_struct", api |-> gen_struct_name(reg.api)]>>

\* gen_parameters, the type of one parameter (the let ty of the closure).
binding_type_raw(binding, reg) ==
    [ns |-> "", name |-> binding.ty]

binding_type(binding, reg) ==
    IF binding.group # None /\ groups_get(reg, binding.group[1]) # None
    THEN [ns |-> "enums::", name |-> groups_get(reg, binding.group[1])[1].ident]
    ELSE [ns |-> "", name |-> binding.ty]

gen_parameters(cmd, reg, with_idents, with_types) ==
    [i \in 1..Len(cmd.params) |->
        LET binding == cmd.params[i]
            ty == binding_type(binding, reg)
        IN IF with_idents /\ with_types
           THEN [ident |-> binding.ident, ty |-> ty]
           ELSE IF with_types
           THEN [ty |-> ty]
           ELSE IF with_idents
           THEN [ident |-> binding.ident]
           ELSE [panic |-> TRUE]]

\* write_impl, first loop: one table initialiser per command,
\*   name: FnPtr::new(metaloadfn("symbol", &[fallbacks])),
metaload_line(reg, cmd) ==
    LET fbs == aliases_get(reg, cmd.proto.ident)
    IN [kind |-> "metaload",
        name |-> cmd.proto.ident,
        symbol |-> gen_symbol_name(reg.api, cmd.proto.ident),
        fallbacks |-> IF fbs # None
                      THEN [j \in 1..Len(fbs[1]) |->
                               gen_symbol_name(reg.api, fbs[1][j])]
                      ELSE <<>>]

\* write_impl, second loop: one forwarding method per command.
method_line(reg, cmd) ==
    [kind |-> "method",
     name |-> cmd.proto.ident,
     params |-> gen_parameters(cmd, reg, TRUE, TRUE),
     typed_params |-> gen_parameters(cmd, reg, FALSE, TRUE),
     return_suffix |-> cmd.proto.ty,
     idents |-> gen_parameters(cmd, reg, TRUE, FALSE)]

write_impl_lines(reg) ==
    <<[kind |-> "impl_open", api |-> gen_struct_name(reg.api)]>>
    \o [i \in 1..Len(reg.cmds) |-> metaload_line(reg, reg.cmds[i])]
    \o <<T("},"), T("_priv: ()"), T("} }")>>
    \o [i \in 1..Len(reg.cmds) |-> method_line(reg, reg.cmds[i])]
    \o <<[kind |-> "impl_close", api |-> gen_struct_name(reg.api)]>>

(***************************************************************************)
(* write_enum_groups.                                                      *)
(***************************************************************************)
\* The HashSet enums: the identifiers of registry.enums.
enum_idents(reg) ==
    {reg.enums[i].ident : i \in 1..Len(reg.enums)}

\* The first loop over group.enums: a constant is written for a name when
\* group_enums.insert(name) says it is new and enums contains it.  seen is
\* group_enums before the i-th member is inserted.
RECURSIVE group_const_lines_no_seen(_, _, _, _)
group_const_lines_no_seen(group, enums, i, seen) ==
    IF i > Len(group.enums)
    THEN <<>>
    ELSE (IF group.enums[i] \in enums
          THEN <<[kind |-> "group_const", group |-> group.ident,
                  enum_name |-> group.enums[i]]>>
          ELSE <<>>)
         \o group_const_lines_no_seen(group, enums, i + 1, seen)

RECURSIVE group_const_lines(_, _, _, _)
group_const_lines(group, enums, i, seen) ==
    IF i > Len(group.enums)
    THEN <<>>
    ELSE LET enum_name == group.enums[i]
             unique == enum_name \notin seen
         IN (IF unique /\ enum_name \in enums
             THEN <<[kind |-> "group_const", group |-> group.ident,
                     enum_name |-> enum_name]>>
             ELSE <<>>)
            \o group_const_lines(group, enums, i + 1, seen \cup {enum_name})

\* group_enums once the first loop has ended.
group_enums_of(group) ==
    Range(group.enums)

\* The orders in which iterating a std HashSet may yield its elements: it is
\* hashed with a RandomState, so any order of the elements.
HashSetIterOrders(S) ==
    {s \in [1..Cardinality(S) -> S] : \A i, j \in 1..Cardinality(S) : i # j => s[i] # s[j]}

\* The second loop, over group_enums.iter(): one match arm per name that enums
\* contains, in the set's iteration order.
RECURSIVE debug_arm_first_only(_, _, _)
debug_arm_first_only(group, enums, iter) ==
    IF iter = <<>>
    THEN <<>>
    ELSE IF Head(iter) \in enums
    THEN <<[kind |-> "debug_arm", group |-> group.ident, enum_name |-> Head(iter)]>>
    ELSE debug_arm_first_only(group, enums, Tail(iter))

RECURSIVE debug_arm_lines(_, _, _)
debug_arm_lines(group, enums, iter) ==
    IF iter = <<>>
    THEN <<>>
    ELSE (IF Head(iter) \in enums
          THEN <<[kind |-> "debug_arm", group |-> group.ident,
                  enum_name |-> Head(iter)]>>
          ELSE <<>>)
         \o debug_arm_lines(group, enums, Tail(iter))

is_bitmask(group) ==
    group.enums_type = Some("bitmask")

\* The body of the loop over registry.groups, for one group; iter is the order
\* in which group_enums.iter() yields.
group_lines(reg, group, iter) ==
    LET enum_type == IF group.ident = "Boolean"
                     THEN "types::GLboolean"
                     ELSE "types::GLenum"
        enums == enum_idents(reg)
    IN <<T("#[repr(transparent)]"),
         T("#[derive(Copy, Clone, PartialEq, Eq, Hash)]"),
         [kind |-> "group_struct", group |-> group.ident, enum_type |-> enum_type],
         T(""),
         [kind |-> "group_impl_open", group |-> group.ident]>>
       \o group_const_lines(group, enums, 1, {})
       \o (IF is_bitmask(group)
           THEN <<[kind |-> "group_empty", group |-> group.ident]>>
           ELSE <<>>)
       \o <<T("}"), T(""),
            [kind |-> "debug_impl_open", group |-> group.ident],
            T("fn fmt"),
            T("match *self {")>>
       \o debug_arm_lines(group, enums, iter)
       \o <<[kind |-> "debug_default", group |-> group.ident],
            T("}"), T("}"), T("}"), T(""),
            [kind |-> "impl_enum_traits", group |-> group.ident],
            T("")>>
       \o (IF is_bitmask(group)
           THEN <<[kind |-> "impl_enum_bitmask_traits", group |-> group.ident],
                  T("")>>
           ELSE <<>>)

\* iters[i] is the iteration order of the i-th group's group_enums.
write_enum_groups_lines(reg, iters) ==
    <<T("macro_rules! impl_enum_traits"), T(""),
      T("macro_rules! impl_enum_bitmask_traits"), T(""),
      T("pub mod enums {"),
      T("#![allow(unreachable_patterns)]"),
      T(""), T("use super::types;"), T("")>>
    \o Concat([i \in 1..Len(reg.groups) |->
                  group_lines(reg, reg.groups[i], iters[i])])
    \o <<T("}")>>

\* Every choice of iteration orders for the groups of the registry.
IterChoices(reg) ==
    {it \in [1..Len(reg.groups) -> SeqsUpTo(EnumIdents, Cardinality(EnumIdents))] :
        \A i \in 1..Len(reg.groups) :
            it[i] \in HashSetIterOrders(group_enums_of(reg.groups[i]))}

(***************************************************************************)
(* The sink.  A sink at fault fails its failAt-th write and every later    *)
(* one with the error it holds; failAt = 0 is a sink that never fails.     *)
(***************************************************************************)
IoErrors == {"WriteZero", "BrokenPipe"}

Sink(failAt, error) ==
    [buf |-> <<>>, attempts |-> 0, failAt |-> failAt, error |-> error]

\* One writeln!(dest, ...): the io::Result and the sink after it.
writeln(d, line) ==
    LET n == d.attempts + 1
    IN IF d.failAt # 0 /\ n >= d.failAt
       THEN [dest |-> [d EXCEPT !.attempts = n], err |-> Some(d.error)]
       ELSE [dest |-> [d EXCEPT !.attempts = n, !.buf = Append(@, line)],
             err |-> None]

\* writeln!s whose results are dropped: every line is attempted.
RECURSIVE unchecked_writes(_, _)
unchecked_writes(d, lines) ==
    IF lines = <<>>
    THEN [dest |-> d, err |-> None]
    ELSE LET r == writeln(d, Head(lines))
             rest == unchecked_writes(r.dest, Tail(lines))
         IN [dest |-> rest.dest, err |-> IF r.err # None THEN r.err ELSE rest.err]

\* A run of try!(writeln!(...)) / writeln!(...)?: the first Err returns.
RECURSIVE try_writes(_, _)
try_writes(d, lines) ==
    IF lines = <<>>
    THEN [dest |-> d, err |-> None]
    ELSE LET r == writeln(d, Head(lines))
         IN IF r.err # None THEN r ELSE try_writes(r.dest, Tail(lines))

(***************************************************************************)
(* What the generated text does: the Debug impl of a group.                *)
(***************************************************************************)
\* The lines of kind k that text writes for group g, in order.
GroupLinesOf(text, k, g) ==
    SelectSeq(text, LAMBDA l : l.kind = k /\ l.group = g)

\* The value of the root constant super::name (generators::gen_enum_item).
RootConstValue(text, name) ==
    LET i == CHOOSE i \in 1..Len(text) :
                 text[i].kind = "gen_enum_item" /\ text[i].ident = name
    IN text[i].value

\* fmt of group g's Debug impl on the value v: the first arm whose constant
\* g::enum_name (defined as g(super::enum_name)) equals the value writes the
\* constant's name; the _ arm writes self.0 with {}.
RECURSIVE match_arms(_, _, _, _)
match_arms(text, arms, g, v) ==
    IF arms = <<>>
    THEN <<g, "(", ToString(v), ")">>
    ELSE IF RootConstValue(text, Head(arms).enum_name) = v
    THEN <<g, "(", Head(arms).enum_name, ")">>
    ELSE match_arms(text, Tail(arms), g, v)

DebugFmt(text, g, v) ==
    match_arms(text, GroupLinesOf(text, "debug_arm", g), g, v)

(***************************************************************************)
(* What the generated text does: load_with, FnPtr and the methods.         *)
(* An address is a number, the null pointer is 0.                          *)
(***************************************************************************)
Addrs == 0..MaxAddr

\* missing_fn_panic as *const c_void: an address no loadfn returns.
MissingFnPanic == -1

FnPtr_new_unchecked(ptr) ==
    [f |-> ptr, is_loaded |-> ptr # 0]

\* FnPtr::new
FnPtr_new(ptr) ==
    IF ptr = 0
    THEN [f |-> MissingFnPanic, is_loaded |-> FALSE]
    ELSE [f |-> ptr, is_loaded |-> TRUE]

\* FnPtr::is_loaded
is_loaded(fnptr) ==
    fnptr.is_loaded

\* do_metaloadfn, its loop over symbols.  loadfn is the caller's FnMut: its
\* k-th call returns loadfn[k]; log is the calls made so far, j the index of
\* the next fallback.
RECURSIVE fallback_loop_no_break(_, _, _, _, _)
fallback_loop_no_break(loadfn, symbols, j, ptr, log) ==
    IF j > Len(symbols)
    THEN [ptr |-> ptr, log |-> log]
    ELSE LET p == loadfn[Len(log) + 1]
         IN fallback_loop_no_break(loadfn, symbols, j + 1, p,
                Append(log, [symbol |-> symbols[j], ptr |-> p]))

RECURSIVE fallback_loop(_, _, _, _, _)
fallback_loop(loadfn, symbols, j, ptr, log) ==
    IF j > Len(symbols)
    THEN [ptr |-> ptr, log |-> log]
    ELSE LET p == loadfn[Len(log) + 1]
             log2 == Append(log, [symbol |-> symbols[j], ptr |-> p])
         IN IF p # 0
            THEN [ptr |-> p, log |-> log2]
            ELSE fallback_loop(loadfn, symbols, j + 1, p, log2)

do_metaloadfn(loadfn, symbol, symbols) ==
    LET ptr == loadfn[1]
        log == <<[symbol |-> symbol, ptr |-> ptr]>>
    IN IF ptr = 0
       THEN fallback_loop(loadfn, symbols, 1, ptr, log)
       ELSE [ptr |-> ptr, log |-> log]

\* The table initialisers of load_with_metaloadfn, as write_impl writes them.
LoadTable(reg) ==
    SelectSeq(write_impl_lines(reg), LAMBDA l : l.kind = "metaload")

\* load_with_metaloadfn evaluates the next field of the table:
\*   name: FnPtr::new(metaloadfn("symbol", &[fallbacks]))
load_entry ==
    /\ Len(ptrs) < Len(LoadTable(registry))
    /\ LET e == LoadTable(registry)[Len(ptrs) + 1]
       IN \E loadfn \in [1..(1 + Len(e.fallbacks)) -> Addrs] :
              LET r == do_metaloadfn(loadfn, e.symbol, e.fallbacks)
              IN /\ ptrs' = Append(ptrs, [name |-> e.name, fnptr |-> FnPtr_new(r.ptr)])
                 /\ queries' = Append(queries, r.log)
    /\ UNCHANGED <<registry, genVars, call>>

\* A generated method: transmute self.ptrs.name.f to the extern "system" fn
\* and call it.  Any address the loader was given is called.  missing_fn_panic
\* is a Rust fn() -> ! reached through a pointer of another type: it runs
\* panic!, which either unwinds out of the method or aborts the process,
\* as the build has it.
invoke_outcomes(f) ==
    IF f = MissingFnPanic THEN {"panic", "abort"} ELSE {"called"}

invoke ==
    /\ Len(ptrs) = Len(LoadTable(registry))
    /\ \E i \in 1..Len(ptrs) :
           \E o \in invoke_outcomes(ptrs[i].fnptr.f) :
               call' = Some([name |-> ptrs[i].name, f |-> ptrs[i].fnptr.f,
                             outcome |-> o])
    /\ UNCHANGED <<registry, genVars, ptrs, queries>>

(***************************************************************************)
(* StructGenerator::write: eight stage emitters, each under try!.          *)
(***************************************************************************)
Registry(enums, cmds, aliases, groups) ==
    [api |-> "gl", enums |-> enums, cmds |-> cmds, aliases |-> aliases,
     groups |-> groups]

\* The stages in the order of the body of write.
StageOrderGroupsFirst ==
    <<"write_header", "write_type_aliases", "write_enums",
      "write_fnptr_struct_def", "write_panicking_fns", "write_struct",
      "write_enum_groups", "write_impl">>

StageOrder ==
    <<"write_header", "write_type_aliases", "write_enums",
      "write_fnptr_struct_def", "write_panicking_fns", "write_struct",
      "write_impl", "write_enum_groups">>

\* The stage that follows stage name, or "returned" after the last (Ok(())).
next_stage(name) ==
    LET i == CHOOSE k \in 1..Len(StageOrder) : StageOrder[k] = name
    IN IF i < Len(StageOrder) THEN StageOrder[i + 1] ELSE "returned"

\* try!(stage(registry, dest)): the stage writes its lines; an Err of any of
\* them is what write returns, at once.
Stage(name, lines) ==
    /\ pc = name
    /\ LET r == try_writes(dest, lines)
       IN /\ dest' = r.dest
          /\ stages' = Append(stages, name)
          /\ IF r.err # None
             THEN pc' = "returned" /\ ret' = <<"Err", r.err[1]>>
             ELSE /\ pc' = next_stage(name)
                  /\ ret' = IF next_stage(name) = "returned" THEN <<"Ok">> ELSE <<>>
    /\ UNCHANGED <<registry, run, prev, loadVars>>

write_header ==
    Stage("write_header", write_header_lines)

write_type_aliases ==
    Stage("write_type_aliases", write_type_aliases_lines(registry))

write_enums ==
    Stage("write_enums", write_enums_lines(registry))

write_fnptr_struct_def ==
    Stage("write_fnptr_struct_def", write_fnptr_struct_def_lines)

write_panicking_fns ==
    Stage("write_panicking_fns", write_panicking_fns_lines(registry))

write_struct ==
    Stage("write_struct", write_struct_lines(registry))

write_impl ==
    Stage("write_impl", write_impl_lines(registry))

write_enum_groups ==
    \E iters \in IterChoices(registry) :
        Stage("write_enum_groups", write_enum_groups_lines(registry, iters))

\* The caller runs the generator again on the same registry, into a new sink.
write_again ==
    /\ pc = "returned"
    /\ ret = <<"Ok">>
    /\ run = 1
    /\ run' = 2
    /\ prev' = dest.buf
    /\ dest' = Sink(0, dest.error)
    /\ pc' = StageOrder[1]
    /\ ret' = <<>>
    /\ stages' = <<>>
    /\ UNCHANGED <<registry, loadVars>>

\* The commands of the sample registries (in BTreeSet order).
SampleCmds ==
    <<Cmd("Clear", "()", <<Binding("mask", "types::GLbitfield", Some("G"))>>),
      Cmd("Enable", "()", <<Binding("cap", "types::GLenum", Some("EnableCap"))>>)>>

SampleAliases ==
    [c \in {"Clear"} |-> <<"ClearEXT">>]

\* Registries of the generator runs: every enum list, the groups with the
\* member list A, B.
MainRegistries ==
    {Registry(e, SampleCmds, SampleAliases, g) :
        e \in EnumLists, g \in GroupLists(EnumsTypes, {<<"A", "B">>})}

\* Registries of the runs into a sink at fault: as above, every value 1.
FaultRegistries ==
    {r \in MainRegistries : \A i \in 1..Len(r.enums) : r.enums[i].value = 1}

\* Registries of the runs that vary the groups: every enum list, every member
\* list up to MaxMembers names.
GroupRegistries ==
    {Registry(e, SampleCmds, SampleAliases, g) :
        e \in EnumLists,
        g \in GroupLists(EnumsTypes, SeqsUpTo(EnumIdents, MaxMembers))}

\* Registries of the runs that vary the parameters of a command.
ParamBindings ==
    {Binding(i, t, g) : i \in {"x", "y"},
                        t \in {"types::GLenum", "types::GLint"},
                        g \in {None, Some("G"), Some("Boolean")}}

ParamRegistries ==
    {Registry(<<Enum("A", 1)>>, <<Cmd("Clear", "()", ps)>>, SampleAliases, g) :
        ps \in SeqsUpTo(ParamBindings, MaxParams),
        g \in GroupLists({None}, {<<"A">>})}

GenInit(regs, sinks) ==
    /\ registry \in regs
    /\ dest \in sinks
    /\ pc = StageOrder[1]
    /\ ret = <<>>
    /\ stages = <<>>
    /\ run = 1
    /\ prev = <<>>
    /\ ptrs = <<>>
    /\ queries = <<>>
    /\ call = None

Init ==
    \/ GenInit(MainRegistries, {Sink(0, "WriteZero")})
    \/ GenInit(FaultRegistries, {Sink(f, e) : f \in 1..MaxFailAt, e \in IoErrors})

GenNext ==
    \/ write_header
    \/ write_type_aliases
    \/ write_enums
    \/ write_fnptr_struct_def
    \/ write_panicking_fns
    \/ write_struct
    \/ write_impl
    \/ write_enum_groups

Next ==
    \/ GenNext
    \/ write_again

Spec ==
    Init /\ [][Next]_vars

\* Registries of the runs of the generated loader: every alias list of up to
\* MaxFallbacks names for each command, or none.
AliasIdents == {"Clear", "ClearEXT"}

AliasMaps ==
    UNION {[D -> SeqsUpTo(AliasIdents, MaxFallbacks)] : D \in SUBSET {"Clear", "Enable"}}

LoadRegistries ==
    {Registry(<<>>, SampleCmds, a, <<>>) : a \in AliasMaps}

InitLoad ==
    GenInit(LoadRegistries, {Sink(0, "WriteZero")})

LoadNext ==
    \/ load_entry
    \/ invoke

SpecLoad ==
    InitLoad /\ [][LoadNext]_vars

InitGroups ==
    GenInit(GroupRegistries, {Sink(0, "WriteZero")})

SpecGroups ==
    InitGroups /\ [][GenNext]_vars

InitParams ==
    GenInit(ParamRegistries, {Sink(0, "WriteZero")})

SpecParams ==
    InitParams /\ [][GenNext]_vars

(***************************************************************************)
(* Properties of the generated loader (SpecLoad).                          *)
(***************************************************************************)
\* The names load_with is to try for a command: its symbol, then the symbols
\* of its aliases in declared order.
NamesToTry(reg, cmd) ==
    <<gen_symbol_name(reg.api, cmd.proto.ident)>>
    \o (IF cmd.proto.ident \in DOMAIN reg.aliases
        THEN [j \in 1..Len(reg.aliases[cmd.proto.ident]) |->
                 gen_symbol_name(reg.api, reg.aliases[cmd.proto.ident][j])]
        ELSE <<>>)

AllNull(q) ==
    \A k \in 1..Len(q) : q[k].ptr = 0

\* C1: for every table entry load_with has built, the resolver was queried
\* with the primary symbol first and then with the fallbacks in declared
\* order, each query after the first made only because every earlier one
\* returned null; the queries stop at the first non-null result (no later
\* name is queried) and the entry is then loaded = true, bound to that
\* result; they stop on a null result only when the list is exhausted.
C1_ResolutionOrder ==
    \A i \in 1..Len(ptrs) :
        LET q == queries[i]
            names == NamesToTry(registry, registry.cmds[i])
        IN /\ ptrs[i].name = registry.cmds[i].proto.ident
           /\ Len(q) >= 1
           /\ Len(q) <= Len(names)
           /\ \A k \in 1..Len(q) : q[k].symbol = names[k]
           /\ \A k \in 1..(Len(q) - 1) : q[k].ptr = 0
           /\ q[Len(q)].ptr # 0 =>
                  ptrs[i].fnptr = [f |-> q[Len(q)].ptr, is_loaded |-> TRUE]
           /\ q[Len(q)].ptr = 0 => Len(q) = Len(names)

\* An entry with two different fallbacks f1, f2 whose primary and f1 failed
\* and whose f2 resolved, and one whose primary resolved although it has
\* fallbacks.
C1_Witness ==
    /\ \E i \in 1..Len(ptrs) :
           /\ Len(NamesToTry(registry, registry.cmds[i])) = 3
           /\ NamesToTry(registry, registry.cmds[i])[2]
                  # NamesToTry(registry, registry.cmds[i])[3]
           /\ Len(queries[i]) = 3
           /\ queries[i][1].ptr = 0
           /\ queries[i][2].ptr = 0
           /\ queries[i][3].ptr # 0
           /\ ptrs[i].fnptr = [f |-> queries[i][3].ptr, is_loaded |-> TRUE]
    /\ \E i \in 1..Len(ptrs) :
           /\ Len(NamesToTry(registry, registry.cmds[i])) = 3
           /\ Len(queries[i]) = 1

\* C2: an entry whose primary name and every fallback resolved to null has
\* is_loaded() = false and holds the address of missing_fn_panic, which is
\* neither null nor an address the resolver returned; invoking its method
\* is fatal (the panic unwinds or aborts) and never calls a resolved address.
\* is_loaded() is read from the entry alone.
C2_TotalFailure ==
    /\ \A i \in 1..Len(ptrs) :
           AllNull(queries[i]) =>
               /\ ~is_loaded(ptrs[i].fnptr)
               /\ ptrs[i].fnptr.f = MissingFnPanic
               /\ ptrs[i].fnptr.f \notin Addrs
    /\ \A i \in 1..Len(ptrs) :
           (call # None /\ call[1].name = ptrs[i].name /\ AllNull(queries[i])) =>
               /\ call[1].outcome \in {"panic", "abort"}
               /\ call[1].f = MissingFnPanic

\* The method of an entry with a fallback whose names all failed was invoked.
C2_Witness ==
    /\ call # None
    /\ \E i \in 1..Len(ptrs) :
           /\ call[1].name = ptrs[i].name
           /\ Len(queries[i]) >= 2
           /\ AllNull(queries[i])
           /\ ~is_loaded(ptrs[i].fnptr)

\* C7 (as claimed): for each command, the resolver is called at most once per
\* symbol name, whatever the alias list.
C7_AtMostOncePerName ==
    \A i \in 1..Len(ptrs) :
        \A k, l \in 1..Len(queries[i]) :
            k # l => queries[i][k].symbol # queries[i][l].symbol

(***************************************************************************)
(* Properties of the generator's output.                                   *)
(***************************************************************************)
Done ==
    ret = <<"Ok">>

\* The indices of s, in order.
Indices(s) ==
    [i \in 1..Len(s) |-> i]

\* The Group Constant Set: the members that are enums of the registry, each
\* at its first occurrence, in declaration order.
GroupConstantSet(reg, group) ==
    LET first == SelectSeq(Indices(group.enums),
                     LAMBDA i : /\ \E k \in 1..Len(reg.enums) :
                                      reg.enums[k].ident = group.enums[i]
                                /\ \A j \in 1..(i - 1) :
                                      group.enums[j] # group.enums[i])
    IN [k \in 1..Len(first) |-> group.enums[first[k]]]

\* The names of the lines of kind k written for group g, in order.
NamesWritten(text, k, g) ==
    LET ls == GroupLinesOf(text, k, g)
    IN [i \in 1..Len(ls) |-> ls[i].enum_name]

IndexOfKind(text, k, g) ==
    CHOOSE i \in 1..Len(text) : text[i].kind = k /\ text[i].group = g

\* C3: the constants written in a group's impl block are the group's member
\* list restricted to the enums of the registry and to first occurrences, in
\* declaration order; this is so for each group on its own, so a name that is
\* a member of two groups is written in both.
C3_GroupConstants ==
    Done =>
        \A gi \in 1..Len(registry.groups) :
            LET g == registry.groups[gi]
            IN /\ NamesWritten(dest.buf, "group_const", g.ident)
                      = GroupConstantSet(registry, g)
               /\ \A i \in 1..Len(dest.buf) :
                      (dest.buf[i].kind = "group_const" /\ dest.buf[i].group = g.ident)
                          => /\ IndexOfKind(dest.buf, "group_impl_open", g.ident) < i
                             /\ i < IndexOfKind(dest.buf, "debug_impl_open", g.ident)

\* Two groups that share the enum A, one of them with a repeated member and
\* one with a member that is no enum of the registry.
C3_Witness ==
    /\ Done
    /\ Len(registry.groups) = 2
    /\ \A gi \in 1..2 : "A" \in Range(NamesWritten(dest.buf, "group_const",
                                                    registry.groups[gi].ident))
    /\ \E gi \in 1..2 : \E i, j \in 1..Len(registry.groups[gi].enums) :
           i # j /\ registry.groups[gi].enums[i] = registry.groups[gi].enums[j]
    /\ \E gi \in 1..2 : \E i \in 1..Len(registry.groups[gi].enums) :
           registry.groups[gi].enums[i] \notin enum_idents(registry)

EnumValue(reg, name) ==
    LET k == CHOOSE k \in 1..Len(reg.enums) : reg.enums[k].ident = name
    IN reg.enums[k].value

\* The values rendered: every value an enum may have, 0, one value past them
\* and 99.
RenderedValues ==
    (0..(MaxValue + 1)) \cup {99}

\* C4: for every group and value, Debug renders Group(Name) for a constant
\* Name of the Group Constant Set whose value it is, when there is one, and
\* Group(value) otherwise; the match arms name exactly the constants written.
\* A plain group with A = 1, B = 2 renders 1 as Group(A), 2 as Group(B) and 99
\* as Group(99).
C4_DebugRendering ==
    Done =>
        \A gi \in 1..Len(registry.groups) :
            LET g == registry.groups[gi]
                consts == Range(GroupConstantSet(registry, g))
            IN /\ Range(NamesWritten(dest.buf, "debug_arm", g.ident))
                      = Range(NamesWritten(dest.buf, "group_const", g.ident))
               /\ \A v \in RenderedValues :
                      LET having == {n \in consts : EnumValue(registry, n) = v}
                      IN IF having # {}
                         THEN \E n \in having :
                                  DebugFmt(dest.buf, g.ident, v) = <<g.ident, "(", n, ")">>
                         ELSE DebugFmt(dest.buf, g.ident, v)
                                  = <<g.ident, "(", ToString(v), ")">>

\* The plain group G with the members A = 1 and B = 2 was generated and
\* renders 1, 2 and 99 as Group(A), Group(B) and Group(99).
C4_Witness ==
    /\ Done
    /\ registry.enums = <<Enum("A", 1), Enum("B", 2)>>
    /\ \E gi \in 1..Len(registry.groups) :
           registry.groups[gi] = Group("G", None, <<"A", "B">>)
    /\ DebugFmt(dest.buf, "G", 1) = <<"G", "(", "A", ")">>
    /\ DebugFmt(dest.buf, "G", 2) = <<"G", "(", "B", ")">>
    /\ DebugFmt(dest.buf, "G", 99) = <<"G", "(", "99", ")">>

\* The type gen_parameters is to render for a parameter: the wrapper type of
\* its group when the registry has that group, its declared type otherwise.
WrapperType(g) ==
    [ns |-> "enums::", name |-> g]

HasGroupOfRegistry(reg, binding) ==
    /\ binding.group # None
    /\ \E k \in 1..Len(reg.groups) : reg.groups[k].ident = binding.group[1]

TypeToRender(reg, binding) ==
    IF HasGroupOfRegistry(reg, binding)
    THEN WrapperType(binding.group[1])
    ELSE [ns |-> "", name |-> binding.ty]

MethodLineOf(text, cmd) ==
    text[CHOOSE i \in 1..Len(text) :
             text[i].kind = "method" /\ text[i].name = cmd.proto.ident]

MethodWritten(text, cmd) ==
    \E i \in 1..Len(text) : text[i].kind = "method" /\ text[i].name = cmd.proto.ident

\* C5 (as claimed): a parameter whose group is in the registry renders a type
\* token equal to the group's wrapper type in all three projections.
C5_WrapperInAllThreeModes ==
    \A ci \in 1..Len(registry.cmds) :
        MethodWritten(dest.buf, registry.cmds[ci]) =>
            LET cmd == registry.cmds[ci]
                m == MethodLineOf(dest.buf, cmd)
            IN \A i \in 1..Len(cmd.params) :
                   HasGroupOfRegistry(registry, cmd.params[i]) =>
                       /\ "ty" \in DOMAIN m.params[i]
                       /\ m.params[i].ty = WrapperType(cmd.params[i].group[1])
                       /\ "ty" \in DOMAIN m.typed_params[i]
                       /\ m.typed_params[i].ty = WrapperType(cmd.params[i].group[1])
                       /\ "ty" \in DOMAIN m.idents[i]
                       /\ m.idents[i].ty = WrapperType(cmd.params[i].group[1])

\* C5 (amended): in the two projections that carry a type (identifier with
\* type, type only) a parameter whose group is in the registry renders the
\* wrapper type enums::G and any other parameter its declared type unchanged;
\* the identifier-only projection renders the identifier alone, with no type
\* token; the three projections have one entry per parameter, in declaration
\* order.
C5_ParameterTypes ==
    \A ci \in 1..Len(registry.cmds) :
        MethodWritten(dest.buf, registry.cmds[ci]) =>
            LET cmd == registry.cmds[ci]
                m == MethodLineOf(dest.buf, cmd)
            IN /\ Len(m.params) = Len(cmd.params)
               /\ Len(m.typed_params) = Len(cmd.params)
               /\ Len(m.idents) = Len(cmd.params)
               /\ \A i \in 1..Len(cmd.params) :
                      LET ty == TypeToRender(registry, cmd.params[i])
                      IN /\ m.params[i] = [ident |-> cmd.params[i].ident, ty |-> ty]
                         /\ m.typed_params[i] = [ty |-> ty]
                         /\ m.idents[i] = [ident |-> cmd.params[i].ident]
                         /\ DOMAIN m.idents[i] = {"ident"}

\* A method was written for a command with two parameters of different
\* identifiers, one of a group of the registry and one of a group the registry
\* does not have.
C5_Witness ==
    /\ Len(registry.cmds) = 1
    /\ MethodWritten(dest.buf, registry.cmds[1])
    /\ Len(registry.cmds[1].params) = 2
    /\ registry.cmds[1].params[1].ident # registry.cmds[1].params[2].ident
    /\ HasGroupOfRegistry(registry, registry.cmds[1].params[1])
    /\ registry.cmds[1].params[2].group # None
    /\ ~HasGroupOfRegistry(registry, registry.cmds[1].params[2])
    /\ MethodLineOf(dest.buf, registry.cmds[1]).typed_params[1].ty.ns = "enums::"

\* C6 (as claimed): a second run of write on the same registry produces the
\* text of the first run.
C6_Idempotent ==
    (run = 2 /\ Done) => dest.buf = prev

\* C8 (as claimed): two constants of a group that share a value are both
\* written, and the name Debug renders for the shared value is the same in
\* every run on the registry.
C8_AliasDeterministic ==
    (run = 2 /\ Done) =>
        \A gi \in 1..Len(registry.groups) :
            LET g == registry.groups[gi]
                consts == Range(GroupConstantSet(registry, g))
            IN \A a, b \in consts :
                   (a # b /\ EnumValue(registry, a) = EnumValue(registry, b)) =>
                       /\ {a, b} \subseteq Range(NamesWritten(dest.buf, "group_const", g.ident))
                       /\ DebugFmt(dest.buf, g.ident, EnumValue(registry, a))
                              = DebugFmt(prev, g.ident, EnumValue(registry, a))

\* The method at line i names the group whose wrapper type is defined at
\* line j.
MethodNamesGroupAt(text, i, j) ==
    /\ text[i].kind = "method"
    /\ text[j].kind = "group_struct"
    /\ \E k \in 1..Len(text[i].typed_params) :
           text[i].typed_params[k].ty = WrapperType(text[j].group)

EightStages ==
    <<"write_header", "write_type_aliases", "write_enums",
      "write_fnptr_struct_def", "write_panicking_fns", "write_struct",
      "write_impl", "write_enum_groups">>

StagesInOrder ==
    /\ Len(stages) <= Len(EightStages)
    /\ \A k \in 1..Len(stages) : stages[k] = EightStages[k]
    /\ Done => stages = EightStages

\* C9 (as claimed): the eight stages run once each in one fixed order, and
\* every group type definition precedes every method that names the group.
C9_GroupsBeforeMethods ==
    /\ StagesInOrder
    /\ Done =>
           \A i, j \in 1..Len(dest.buf) :
               MethodNamesGroupAt(dest.buf, i, j) => j < i

\* C9 (amended): the eight stages run once each in the fixed order header,
\* type aliases, enums, FnPtr definition, panicking fn, struct, impl, enum
\* groups; the impl stage comes before the enum groups stage, so every method
\* precedes the definition of every group type it names.
C9_MethodsBeforeGroups ==
    /\ StagesInOrder
    /\ Done =>
           \A i, j \in 1..Len(dest.buf) :
               MethodNamesGroupAt(dest.buf, i, j) => i < j

\* A finished run whose text has a method naming a group type.
C9_Witness ==
    /\ Done
    /\ \E i, j \in 1..Len(dest.buf) : MethodNamesGroupAt(dest.buf, i, j)

Failed ==
    Len(ret) = 2 /\ ret[1] = "Err"

\* The sink has failed a write.
SinkFailed ==
    dest.failAt # 0 /\ dest.attempts >= dest.failAt

AbortedAtFirstFailure ==
    /\ SinkFailed <=> Failed
    /\ Failed =>
           /\ dest.attempts = dest.failAt
           /\ Len(dest.buf) = dest.failAt - 1
           /\ ret = <<"Err", dest.error>>
           /\ pc = "returned"

\* C10: once a write to the sink fails, in whatever stage or loop, write
\* attempts no further write (the failing write is its last), runs no later
\* stage, and returns that error; the registry is never changed.
C10_AbortOnWriteError ==
    [][/\ registry' = registry
       /\ AbortedAtFirstFailure'
       /\ Failed => (dest' = dest /\ stages' = stages /\ ret' = ret)]_vars

\* A write failed inside the loop over the groups, right after a constant
\* of a group was written.
C10_Witness ==
    /\ Failed
    /\ stages[Len(stages)] = "write_enum_groups"
    /\ \E i \in 1..Len(dest.buf) : dest.buf[i].kind = "group_struct"
    /\ dest.buf[Len(dest.buf)].kind = "group_const"

====
